---------------------------- MODULE Spec2Model ----------------------------
(***************************************************************************)
(* A model of the celestrak-go client: the Query URL builder (query.go),   *)
(* the error types (errors.go) and the fetch engine with its retry loop    *)
(* (client.go, gp.go, table.go).                                           *)
(*                                                                         *)
(* Strings are sequences of tokens.  A token is either one of the          *)
(* characters the code treats specially (the space that TrimSpace strips,  *)
(* the characters QueryEscape rewrites) or an opaque run of unreserved     *)
(* characters such as "25544" or "CATNR".                                  *)
(***************************************************************************)
EXTENDS Integers, Sequences, FiniteSets, TLC

(***************************************************************************)
(* Bounds of the model.                                                    *)
(***************************************************************************)
\* maxRetries is drawn from -1 .. MaxRetriesBound
MaxRetriesBound == 3
\* retryDelay is drawn from 0 .. MaxDelayBound (in units of the timer)
MaxDelayBound == 1
\* the response size cap, scaled down from 100 MiB
CapBound == 2
\* the error-message read limit, scaled down from 8 KiB
MsgLimitBound == 1

(***************************************************************************)
(* Strings                                                                 *)
(***************************************************************************)
Nil == "nil"

EmptyStr == <<>>

\* strings.TrimSpace: strips leading and trailing white space
RECURSIVE TrimLeft(_)
TrimLeft(s) ==
    IF s # <<>> /\ Head(s) = " " THEN TrimLeft(Tail(s)) ELSE s

RECURSIVE TrimRight(_)
TrimRight(s) ==
    IF s # <<>> /\ s[Len(s)] = " " THEN TrimRight(SubSeq(s, 1, Len(s) - 1)) ELSE s

TrimSpace(s) == TrimRight(TrimLeft(s))

\* the first n elements of s (io.LimitReader, a slice bound)
Take(s, n) == SubSeq(s, 1, IF Len(s) < n THEN Len(s) ELSE n)

(***************************************************************************)
(* errors.go: error values.  An error is the chain of its layers, the      *)
(* outermost first; Unwrap is Tail; the nil error is the empty chain.  A   *)
(* type assertion on err looks at the outermost layer only.                *)
(***************************************************************************)
NoErr == <<>>

\* one layer of an error: its dynamic type, its message (a string of
\* tokens), the status code of its response and the count it formats
Layer(t, m, n) == [type |-> t, msg |-> << m >>, status |-> 0, n |-> n]

\* &QueryError{Message: m}
QueryError(m) == << Layer("QueryError", m, 0) >>

\* &ErrorResponse{Response: resp, Message: m}: m is a string of tokens
ErrorResponse(status, m) ==
    << [type |-> "ErrorResponse", msg |-> m, status |-> status, n |-> 0] >>

\* fmt.Errorf(prefix + ": %w", err): a wrapError around err.  With a nil
\* operand %w wraps nothing and the result has no inner error.
Errorf(prefix, err) == << Layer("wrapError", prefix, 0) >> \o err

\* fmt.Errorf("max retries (%d) exceeded: %w", n, err)
MaxRetriesExceeded(n, err) == << Layer("wrapError", "max retries exceeded", n) >> \o err

\* ctx.Err() of a done context: context.Canceled or context.DeadlineExceeded
CtxError(kind) == << Layer("ctxError", kind, 0) >>

\* the error http.Client.Do returns for a transport failure
TransportError == << Layer("urlError", "transport", 0) >>

\* the error a failed Body.Read returns
ReadError == << Layer("readError", "read", 0) >>

\* IsQueryError: a type assertion of err to a QueryError pointer
IsQueryError(err) ==
    err # NoErr /\ err[1].type = "QueryError"

\* IsErrorResponse: a type assertion of err to an ErrorResponse pointer
IsErrorResponse(err) ==
    err # NoErr /\ err[1].type = "ErrorResponse"

\* ErrorResponse.IsServerError, on the outermost layer
\* variant: only statuses above 500 count as server errors
IsServerErrorAbove500(err) == err[1].status > 500

IsServerError(err) ==
    err[1].status >= 500

\* errors.Is / errors.As style search of the whole chain
Wraps(err, inner) ==
    \E i \in 1..Len(err) : SubSeq(err, i, Len(err)) = inner

(***************************************************************************)
(* query.go: Query, singleSelector, addTableFlags, BuildURL                *)
(***************************************************************************)
defaultBaseURL == "https://celestrak.org"

FormatTLE == << "TLE" >>

SelectorKeys == << "CATNR", "INTDES", "GROUP", "NAME", "SPECIAL" >>

NoFlags ==
    [BSTAR |-> FALSE, ShowOps |-> FALSE, Oldest |-> FALSE,
     Docked |-> FALSE, Movers |-> FALSE]

\* a variant of set(k, v) that tests the trimmed value and keeps the raw one
SelSetUntrimmed(st, k, v0) ==
    IF TrimSpace(v0) = EmptyStr \/ st.err # NoErr THEN st
    ELSE IF st.key # ""
         THEN [st EXCEPT !.err =
                 QueryError("set exactly one of CATNR/INTDES/GROUP/NAME/SPECIAL")]
         ELSE [st EXCEPT !.key = k, !.val = v0]

\* the closure set(k, v) of singleSelector, acting on (key, val, err)
SelSet(st, k, v0) ==
    LET v == TrimSpace(v0) IN
    IF v = EmptyStr \/ st.err # NoErr THEN st
    ELSE IF st.key # ""
         THEN [st EXCEPT !.err =
                 QueryError("set exactly one of CATNR/INTDES/GROUP/NAME/SPECIAL")]
         ELSE [st EXCEPT !.key = k, !.val = v]

\* a variant of singleSelector that drops the error of a second selector
singleSelectorFirstWins(q) ==
    LET s1 == SelSet([key |-> "", val |-> EmptyStr, err |-> NoErr], "CATNR", q.CATNR)
        s2 == SelSet(s1, "INTDES", q.INTDES)
        s3 == SelSet(s2, "GROUP", q.GROUP)
        s4 == SelSet(s3, "NAME", q.NAME)
        s5 == SelSet(s4, "SPECIAL", q.SPECIAL)
    IN  IF s5.key = ""
        THEN [key |-> "", val |-> EmptyStr,
              err |-> QueryError("missing selector (set one of CATNR/INTDES/GROUP/NAME/SPECIAL)")]
        ELSE [key |-> s5.key, val |-> s5.val, err |-> NoErr]

\* Query.singleSelector(): (key, val, err)
singleSelector(q) ==
    LET s1 == SelSet([key |-> "", val |-> EmptyStr, err |-> NoErr], "CATNR", q.CATNR)
        s2 == SelSet(s1, "INTDES", q.INTDES)
        s3 == SelSet(s2, "GROUP", q.GROUP)
        s4 == SelSet(s3, "NAME", q.NAME)
        s5 == SelSet(s4, "SPECIAL", q.SPECIAL)
    IN  IF s5.err # NoErr
        THEN [key |-> "", val |-> EmptyStr, err |-> s5.err]
        ELSE IF s5.key = ""
             THEN [key |-> "", val |-> EmptyStr,
                   err |-> QueryError("missing selector (set one of CATNR/INTDES/GROUP/NAME/SPECIAL)")]
             ELSE [key |-> s5.key, val |-> s5.val, err |-> NoErr]

\* url.Values: a map from key to value; Set replaces the value of the key
NoParams == << >>

ParamsSet(params, k, v) ==
    [x \in (DOMAIN params) \cup {k} |-> IF x = k THEN v ELSE params[x]]

addTableFlags(q, params) ==
    LET p1 == IF q.TableFlags.BSTAR THEN ParamsSet(params, "BSTAR", << "1" >>) ELSE params
        p2 == IF q.TableFlags.ShowOps THEN ParamsSet(p1, "SHOW-OPS", << "1" >>) ELSE p1
        p3 == IF q.TableFlags.Oldest THEN ParamsSet(p2, "OLDEST", << "1" >>) ELSE p2
        p4 == IF q.TableFlags.Docked THEN ParamsSet(p3, "DOCKED", << "1" >>) ELSE p3
        p5 == IF q.TableFlags.Movers THEN ParamsSet(p4, "MOVERS", << "1" >>) ELSE p4
    IN  p5

\* url.QueryEscape on one token: a space becomes "+", reserved characters
\* are percent-encoded, unreserved runs are kept
EscapeToken(t) ==
    CASE t = " " -> "+"
      [] t = "&" -> "%26"
      [] t = "=" -> "%3D"
      [] t = "+" -> "%2B"
      [] OTHER   -> t

QueryEscape(s) == [i \in 1..Len(s) |-> EscapeToken(s[i])]

\* variant: the keys are emitted in the order BuildURL sets them
InsertionKeyOrder ==
    << "CATNR", "INTDES", "GROUP", "NAME", "SPECIAL", "FORMAT",
       "BSTAR", "SHOW-OPS", "OLDEST", "DOCKED", "MOVERS" >>

\* the byte-wise string order of the parameter names, as sort.Strings
\* orders the keys inside url.Values.Encode
SortedKeyOrder ==
    << "BSTAR", "CATNR", "DOCKED", "FORMAT", "GROUP", "INTDES",
       "MOVERS", "NAME", "OLDEST", "SHOW-OPS", "SPECIAL" >>

\* url.Values.Encode: "key=value" pairs joined by "&", sorted by key
RECURSIVE EncodeFrom(_, _, _)
EncodeFrom(params, i, first) ==
    IF i > Len(SortedKeyOrder) THEN <<>>
    ELSE LET k == SortedKeyOrder[i] IN
         IF k \in DOMAIN params
         THEN (IF first THEN <<>> ELSE << "&" >>)
              \o << k, "=" >> \o QueryEscape(params[k])
              \o EncodeFrom(params, i + 1, FALSE)
         ELSE EncodeFrom(params, i + 1, first)

Encode(params) ==
    CHOOSE r \in { EncodeFrom(p, 1, TRUE) : p \in {params} } : TRUE

\* variant: the table flags are added whatever the endpoint
BuildSelectedAnyEndpoint(q, base, endpoint, sel) ==
    IF sel.err # NoErr THEN [url |-> EmptyStr, err |-> sel.err]
    ELSE LET format == IF q.FORMAT = EmptyStr THEN FormatTLE ELSE q.FORMAT
             p1 == ParamsSet(NoParams, sel.key, sel.val)
             p2 == ParamsSet(p1, "FORMAT", format)
             p3 == addTableFlags(q, p2)
         IN  [url |-> << base, "/NORAD/elements/", endpoint, "?" >> \o Encode(p3),
              err |-> NoErr]

\* BuildURL once singleSelector has returned sel
BuildSelected(q, base, endpoint, sel) ==
    IF sel.err # NoErr THEN [url |-> EmptyStr, err |-> sel.err]
    ELSE LET format == IF q.FORMAT = EmptyStr THEN FormatTLE ELSE q.FORMAT
             p1 == ParamsSet(NoParams, sel.key, sel.val)
             p2 == ParamsSet(p1, "FORMAT", format)
             p3 == IF endpoint = "table.php" THEN addTableFlags(q, p2) ELSE p2
         IN  [url |-> << base, "/NORAD/elements/", endpoint, "?" >> \o Encode(p3),
              err |-> NoErr]

\* Query.BuildURL(base, endpoint): (url, err)
BuildURL(q, base, endpoint) ==
    IF base = Nil THEN [url |-> EmptyStr, err |-> QueryError("base URL is nil")]
    ELSE IF endpoint = "" THEN [url |-> EmptyStr, err |-> QueryError("endpoint is required")]
    ELSE CHOOSE r \in { BuildSelected(q, base, endpoint, sel) :
                          sel \in {singleSelector(q)} } : TRUE

(***************************************************************************)
(* client.go: the Client, its Cache port and the transport                 *)
(***************************************************************************)
\* maxResponseSize = 100 * 1024 * 1024, scaled to the model
maxResponseSize == CapBound

\* the 8<<10 limit of the error-message read, scaled to the model
errorBodyLimit == MsgLimitBound

\* Cache.Get(key): (data, etag, ok)
CacheGet(cch, key) ==
    IF key \in DOMAIN cch
    THEN [data |-> cch[key].data, etag |-> cch[key].etag, ok |-> TRUE]
    ELSE [data |-> <<>>, etag |-> EmptyStr, ok |-> FALSE]

\* Cache.Put(key, data, etag)
CachePut(cch, key, data, etag) ==
    [k \in (DOMAIN cch) \cup {key} |->
        IF k = key THEN [data |-> data, etag |-> etag] ELSE cch[k]]

\* shouldRetry(err)
shouldRetry(err) ==
    IF err = NoErr THEN FALSE
    ELSE IF IsQueryError(err) THEN FALSE
    ELSE IF IsErrorResponse(err) THEN IsServerError(err)
    ELSE TRUE

(***************************************************************************)
(* State                                                                   *)
(***************************************************************************)
VARIABLES
    q,          \* the Query of the call
    endpoint,   \* the endpoint of the call
    baseURL,    \* Client.baseURL (the base handed to BuildURL)
    maxRetries, \* Client.maxRetries
    retryDelay, \* Client.retryDelay
    cacheOn,    \* Client.cache # nil
    userAgent,  \* Client.userAgent
    cache,      \* the content of the Cache port: key -> (data, etag)
    ctx,        \* the context: "nil", "live", or the error of a done context
    pc,         \* where the call stands
    attempt,    \* fetch: the loop variable
    delay,      \* fetch: the next wait
    lastErr,    \* fetch: lastErr
    fo,         \* fetchOnce: fullURL, cached, etag, hasCache of the attempt
    req,        \* the headers of the request handed to httpClient.Do
    resp,       \* what httpClient.Do returned last
    result,     \* what fetch returned: (data, err)
    built,      \* what a direct BuildURL call returned: (url, err)
    nAttempts,  \* history: calls of fetchOnce
    nRequests,  \* history: calls of httpClient.Do
    nBuilds,    \* history: BuildURL calls that got past the context checks
    nGets,      \* history: Cache.Get calls
    nPuts,      \* history: Cache.Put calls
    nDoErrors,  \* history: calls of httpClient.Do that returned an error
    waits,      \* history: the durations of the timers that fired
    cancelAt,   \* history: where the call stood when the context completed
    start       \* history: the configuration of the client when the call started

vars ==
    << q, endpoint, baseURL, maxRetries, retryDelay, cacheOn, userAgent, cache,
       ctx, pc, attempt, delay, lastErr, fo, req, resp, result, built,
       nAttempts, nRequests, nBuilds, nGets, nPuts, nDoErrors, waits, cancelAt,
       start >>

config == << q, endpoint, baseURL, maxRetries, retryDelay, cacheOn, userAgent, start >>

\* what stays fixed through a call whatever happens to the client
call == << q, endpoint, baseURL, start >>

history == << nAttempts, nRequests, nBuilds, nGets, nPuts, nDoErrors, waits >>

(***************************************************************************)
(* Inputs                                                                  *)
(***************************************************************************)
Query(catnr, intdes, group, name, special, format, flags) ==
    [CATNR |-> catnr, INTDES |-> intdes, GROUP |-> group, NAME |-> name,
     SPECIAL |-> special, FORMAT |-> format, TableFlags |-> flags]

\* QueryByCATNR(catnr, format) and its siblings
QueryByCATNR(catnr, format) ==
    Query(catnr, EmptyStr, EmptyStr, EmptyStr, EmptyStr, format, NoFlags)

QueryByGROUP(group, format) ==
    Query(EmptyStr, EmptyStr, group, EmptyStr, EmptyStr, format, NoFlags)

\* the queries of the fetch calls: two valid ones, and three that fail
\* validation (no selector, only white space, two selectors)
ValidQueries ==
    { QueryByCATNR(<< "25544" >>, << "JSON" >>),
      [QueryByGROUP(<< " ", "GPS", " ", "OPS" >>, EmptyStr)
          EXCEPT !.TableFlags.ShowOps = TRUE] }

InvalidQueries ==
    { Query(EmptyStr, EmptyStr, EmptyStr, EmptyStr, EmptyStr, EmptyStr, NoFlags),
      Query(<< " " >>, EmptyStr, EmptyStr, EmptyStr, EmptyStr, << "JSON" >>, NoFlags),
      Query(<< "25544" >>, EmptyStr, EmptyStr, << "ISS" >>, EmptyStr, EmptyStr, NoFlags) }

\* the calls: every failing query on each of the four operations, the
\* CATNR query on FetchGP and FetchGPFirst, the GROUP query with a table
\* flag on FetchGPLast and FetchTable
FetchCalls ==
    (InvalidQueries \X {"gp.php", "gp-first.php", "gp-last.php", "table.php"})
    \cup { c \in ValidQueries \X {"gp.php", "gp-first.php", "gp-last.php", "table.php"} :
             (c[1].CATNR # EmptyStr) = (c[2] \in {"gp.php", "gp-first.php"}) }

\* the values a selector field takes in a direct BuildURL call
SelectorValues == { EmptyStr, << " " >>, << " ", "ISS", " ", "&", "1", " " >> }

FormatValues == { EmptyStr, << "JSON" >> }

FlagValues ==
    [BSTAR : BOOLEAN, ShowOps : BOOLEAN, Oldest : BOOLEAN,
     Docked : BOOLEAN, Movers : BOOLEAN]

SomeFlags ==
    [BSTAR |-> TRUE, ShowOps |-> FALSE, Oldest |-> TRUE,
     Docked |-> FALSE, Movers |-> TRUE]

\* the queries of the direct BuildURL calls: every combination of selector
\* values, and every combination of table flags on one selector
BuildQueries ==
    { Query(a, b, c, d, e, f, g) :
        a \in SelectorValues, b \in SelectorValues, c \in SelectorValues,
        d \in SelectorValues, e \in SelectorValues, f \in FormatValues,
        g \in {NoFlags, SomeFlags} }
    \cup { Query(<< "25544" >>, EmptyStr, EmptyStr, EmptyStr, EmptyStr, f, g) :
             f \in FormatValues, g \in FlagValues }
    \cup { Query(EmptyStr, EmptyStr, EmptyStr, EmptyStr, << "GPZ" >>, f, g) :
             f \in FormatValues, g \in FlagValues }

\* the entries the cache may hold for the URL of the call when it starts
InitialEntries ==
    { [data |-> << "old" >>, etag |-> << "v0" >>],
      [data |-> <<>>, etag |-> EmptyStr] }

NoCache == << >>

InitialCaches(key) ==
    {NoCache} \cup { CachePut(NoCache, key, e.data, e.etag) : e \in InitialEntries }

Statuses == {200, 299, 300, 304, 499, 500}

\* a body of n bytes
Bytes(n) == [i \in 1..n |-> "x"]

Response(status, body, bodyErr, etag) ==
    [kind |-> "response", status |-> status, body |-> body,
     bodyErr |-> bodyErr, etag |-> etag]

\* httpClient.Do failed
DoError == [kind |-> "error", status |-> 0, body |-> <<>>,
            bodyErr |-> FALSE, etag |-> EmptyStr]

NoResponse == [kind |-> "none", status |-> 0, body |-> <<>>,
               bodyErr |-> FALSE, etag |-> EmptyStr]

\* what httpClient.Do may return: an error, or a response whose body stream
\* delivers `body` and then ends (bodyErr: with a read error instead of EOF)
Outcomes ==
    {DoError}
    \cup { Response(200, Bytes(n), be, et) :
             n \in 0..(maxResponseSize + 1), be \in BOOLEAN,
             et \in { EmptyStr, << " " >>, << " ", "v1" >> } }
    \cup { Response(299, Bytes(1), FALSE, EmptyStr) }
    \cup { Response(st, b, FALSE, EmptyStr) :
             st \in Statuses \ {200, 299}, b \in { <<>>, << "x", " ", "x" >> } }

(***************************************************************************)
(* client.go: fetchOnce, in two halves around the call of httpClient.Do    *)
(***************************************************************************)
NoAttempt ==
    [err |-> NoErr, fullURL |-> EmptyStr, cached |-> <<>>, etag |-> EmptyStr,
     hasCache |-> FALSE, built |-> FALSE, looked |-> FALSE]

\* fetchOnce up to the request: the context checks, BuildURL, Cache.Get.
\* (http.NewRequestWithContext cannot fail here: the method is GET, the
\* context is not nil and the URL is one BuildURL produced.)
\* variant: the cache is read before the error of BuildURL is looked at
FetchOnceLookupBeforeError(b, con, cch) ==
    LET got == IF con THEN CacheGet(cch, b.url)
               ELSE [data |-> <<>>, etag |-> EmptyStr, ok |-> FALSE]
    IN  IF b.err # NoErr
        THEN [NoAttempt EXCEPT !.err = Errorf("build URL", b.err), !.built = TRUE,
                               !.looked = con]
        ELSE [err |-> NoErr, fullURL |-> b.url, cached |-> got.data,
              etag |-> got.etag, hasCache |-> got.ok, built |-> TRUE,
              looked |-> con]

FetchOnceLookup(b, con, cch) ==
    IF b.err # NoErr
    THEN [NoAttempt EXCEPT !.err = Errorf("build URL", b.err), !.built = TRUE]
    ELSE LET got == IF con THEN CacheGet(cch, b.url)
                    ELSE [data |-> <<>>, etag |-> EmptyStr, ok |-> FALSE]
         IN  [err |-> NoErr, fullURL |-> b.url, cached |-> got.data,
              etag |-> got.etag, hasCache |-> got.ok, built |-> TRUE,
              looked |-> con]

\* variant: fetchOnce without its own check of ctx.Err()
FetchOnceBeginUnchecked(c, qq, base, ep, con, cch) ==
    IF c = "nil"
    THEN [NoAttempt EXCEPT !.err = QueryError("context must be non-nil")]
    ELSE CHOOSE a \in { FetchOnceLookup(b, con, cch) :
                          b \in {BuildURL(qq, base, ep)} } : TRUE

FetchOnceBegin(c, qq, base, ep, con, cch) ==
    IF c = "nil"
    THEN [NoAttempt EXCEPT !.err = QueryError("context must be non-nil")]
    ELSE IF c # "live"
    THEN [NoAttempt EXCEPT !.err = Errorf("context error", CtxError(c))]
    ELSE CHOOSE a \in { FetchOnceLookup(b, con, cch) :
                          b \in {BuildURL(qq, base, ep)} } : TRUE

\* variant: the request is never made conditional
RequestHeadersWithoutValidator(ua, a) ==
    [userAgent |-> ua, ifNoneMatch |-> EmptyStr]

\* the headers fetchOnce sets on the request ("" : the header is not set)
RequestHeaders(ua, a) ==
    [userAgent |-> ua,
     ifNoneMatch |-> IF a.hasCache /\ a.etag # EmptyStr THEN a.etag ELSE EmptyStr]

NoRequest == [userAgent |-> "", ifNoneMatch |-> EmptyStr]

Returned(data, err, put, etag) ==
    [data |-> data, err |-> err, put |-> put, etag |-> etag]

\* variant: the read stops at the cap without probing for one more byte
ReadBodyTruncating(o, con) ==
    LET body == Take(o.body, maxResponseSize) IN
    IF Len(o.body) < maxResponseSize /\ o.bodyErr
    THEN Returned(<<>>, Errorf("read response", ReadError), FALSE, EmptyStr)
    ELSE IF Len(body) = 0
    THEN Returned(<<>>, ErrorResponse(o.status, << "empty response body" >>),
                  FALSE, EmptyStr)
    ELSE Returned(body, NoErr, con, TrimSpace(o.etag))

\* variant: the cache is written only when the response has an ETag
ReadBodyPutWithValidator(o, con) ==
    LET body == Take(o.body, maxResponseSize) IN
    IF Len(o.body) < maxResponseSize /\ o.bodyErr
    THEN Returned(<<>>, Errorf("read response", ReadError), FALSE, EmptyStr)
    ELSE IF Len(body) = maxResponseSize /\ Len(o.body) > maxResponseSize
    THEN Returned(<<>>, ErrorResponse(o.status, << "response too large" >>),
                  FALSE, EmptyStr)
    ELSE IF Len(body) = 0
    THEN Returned(<<>>, ErrorResponse(o.status, << "empty response body" >>),
                  FALSE, EmptyStr)
    ELSE Returned(body, NoErr, con /\ TrimSpace(o.etag) # EmptyStr, TrimSpace(o.etag))

\* variant: an empty body is returned like any other
ReadBodyAllowEmpty(o, con) ==
    LET body == Take(o.body, maxResponseSize) IN
    IF Len(o.body) < maxResponseSize /\ o.bodyErr
    THEN Returned(<<>>, Errorf("read response", ReadError), FALSE, EmptyStr)
    ELSE IF Len(body) = maxResponseSize /\ Len(o.body) > maxResponseSize
    THEN Returned(<<>>, ErrorResponse(o.status, << "response too large" >>),
                  FALSE, EmptyStr)
    ELSE Returned(body, NoErr, con, TrimSpace(o.etag))

\* the size-bounded read of a 2xx body and what follows it
ReadBody(o, con) ==
    LET body == Take(o.body, maxResponseSize) IN
    IF Len(o.body) < maxResponseSize /\ o.bodyErr
    THEN Returned(<<>>, Errorf("read response", ReadError), FALSE, EmptyStr)
    ELSE IF Len(body) = maxResponseSize /\ Len(o.body) > maxResponseSize
    THEN Returned(<<>>, ErrorResponse(o.status, << "response too large" >>),
                  FALSE, EmptyStr)
    ELSE IF Len(body) = 0
    THEN Returned(<<>>, ErrorResponse(o.status, << "empty response body" >>),
                  FALSE, EmptyStr)
    ELSE Returned(body, NoErr, con, TrimSpace(o.etag))

\* the ErrorResponse of a non-2xx response: the message is the trimmed
\* start of the body, or the status text
StatusError(o) ==
    LET message == TrimSpace(Take(o.body, errorBodyLimit)) IN
    ErrorResponse(o.status,
                  IF message = EmptyStr THEN << "Status" >> ELSE message)

\* variant: fetchOnce without the 304 branch
FetchOnceEndWithout304(o, c, a, con) ==
    IF o.kind = "error"
    THEN IF c # "live"
         THEN Returned(<<>>, Errorf("request cancelled", CtxError(c)), FALSE, EmptyStr)
         ELSE Returned(<<>>, Errorf("request failed", TransportError), FALSE, EmptyStr)
    ELSE IF o.status < 200 \/ o.status > 299
    THEN Returned(<<>>, StatusError(o), FALSE, EmptyStr)
    ELSE ReadBody(o, con)

\* variant: the cache is written before the status is looked at
FetchOnceEndCachingErrors(o, c, a, con) ==
    IF o.kind = "error"
    THEN IF c # "live"
         THEN Returned(<<>>, Errorf("request cancelled", CtxError(c)), FALSE, EmptyStr)
         ELSE Returned(<<>>, Errorf("request failed", TransportError), FALSE, EmptyStr)
    ELSE IF o.status = 304
    THEN IF a.hasCache
         THEN Returned(a.cached, NoErr, FALSE, EmptyStr)
         ELSE Returned(<<>>,
                ErrorResponse(o.status,
                    << "304 Not Modified but no cached body available" >>),
                FALSE, EmptyStr)
    ELSE IF o.status < 200 \/ o.status > 299
    THEN Returned(<<>>, StatusError(o), con, TrimSpace(o.etag))
    ELSE ReadBody(o, con)

\* fetchOnce from the return of httpClient.Do on
FetchOnceEnd(o, c, a, con) ==
    IF o.kind = "error"
    THEN IF c # "live"
         THEN Returned(<<>>, Errorf("request cancelled", CtxError(c)), FALSE, EmptyStr)
         ELSE Returned(<<>>, Errorf("request failed", TransportError), FALSE, EmptyStr)
    ELSE IF o.status = 304
    THEN IF a.hasCache
         THEN Returned(a.cached, NoErr, FALSE, EmptyStr)
         ELSE Returned(<<>>,
                ErrorResponse(o.status,
                    << "304 Not Modified but no cached body available" >>),
                FALSE, EmptyStr)
    ELSE IF o.status < 200 \/ o.status > 299
    THEN Returned(<<>>, StatusError(o), FALSE, EmptyStr)
    ELSE ReadBody(o, con)

(***************************************************************************)
(* client.go: fetch, the retry loop                                        *)
(***************************************************************************)
NoResult == [data |-> <<>>, err |-> NoErr]

Running == pc \in {"loop", "wait", "fetchOnce", "do"}

\* variant: a success after failures is returned with the last error
ReturnWithLastErr(data, err) ==
    /\ pc' = "done"
    /\ result' = [data |-> data, err |-> IF err = NoErr THEN lastErr ELSE err]

\* fetch returns (data, err)
Return(data, err) ==
    /\ pc' = "done"
    /\ result' = [data |-> data, err |-> err]

\* the lines of fetch after a failed fetchOnce
AttemptFailed(err) ==
    /\ lastErr' = err
    /\ IF ~shouldRetry(err)
       THEN Return(<<>>, err) /\ UNCHANGED attempt
       ELSE pc' = "loop" /\ attempt' = attempt + 1 /\ UNCHANGED result

\* variant: the loop condition lets one more attempt through
LoopStepOneMore(att, maxR, c) ==
    IF ~(att <= maxR + 1) THEN "exhausted"
    ELSE IF c = "nil" THEN "panic"
    ELSE IF c # "live" THEN "cancelled"
    ELSE IF att > 0 THEN "wait"
    ELSE "fetchOnce"

\* variant: the loop condition is attempt < maxRetries
LoopStepOneShort(att, maxR, c) ==
    IF ~(att < maxR) THEN "exhausted"
    ELSE IF c = "nil" THEN "panic"
    ELSE IF c # "live" THEN "cancelled"
    ELSE IF att > 0 THEN "wait"
    ELSE "fetchOnce"

\* variant: the context is checked before the retries only
LoopStepFirstUnchecked(att, maxR, c) ==
    IF ~(att <= maxR) THEN "exhausted"
    ELSE IF att = 0 THEN "fetchOnce"
    ELSE IF c = "nil" THEN "panic"
    ELSE IF c # "live" THEN "cancelled"
    ELSE "wait"

\* the head of the loop: the loop condition, the context check, and
\* whether a wait precedes the attempt
LoopStep(att, maxR, c) ==
    IF ~(att <= maxR) THEN "exhausted"
    ELSE IF c = "nil" THEN "panic"
    ELSE IF c # "live" THEN "cancelled"
    ELSE IF att > 0 THEN "wait"
    ELSE "fetchOnce"

\* variant: the delay is not doubled
NextDelayConstant(d) == d

\* delay *= 2.  (time.Duration is an int64 of nanoseconds: the product wraps
\* only once waits of 2^62 ns have been sat through, out of the model's range.)
NextDelay(d) == d * 2

\* the loop condition fails: all retries exhausted
LoopExhausted ==
    /\ pc = "loop"
    /\ LoopStep(attempt, maxRetries, ctx) = "exhausted"
    /\ Return(<<>>, MaxRetriesExceeded(maxRetries, lastErr))
    /\ UNCHANGED << config, cache, ctx, attempt, delay, lastErr, fo, req, resp,
                    built, history, cancelAt >>

\* ctx.Err() on a nil interface value: a nil pointer dereference
LoopNilContext ==
    /\ pc = "loop"
    /\ LoopStep(attempt, maxRetries, ctx) = "panic"
    /\ pc' = "panic"
    /\ UNCHANGED << config, cache, ctx, attempt, delay, lastErr, fo, req, resp,
                    result, built, history, cancelAt >>

\* the context check at the head of the loop finds the context done
LoopContextDone ==
    /\ pc = "loop"
    /\ LoopStep(attempt, maxRetries, ctx) = "cancelled"
    /\ Return(<<>>, Errorf("context cancelled", CtxError(ctx)))
    /\ UNCHANGED << config, cache, ctx, attempt, delay, lastErr, fo, req, resp,
                    built, history, cancelAt >>

\* the first attempt starts at once
LoopFirstAttempt ==
    /\ pc = "loop"
    /\ LoopStep(attempt, maxRetries, ctx) = "fetchOnce"
    /\ pc' = "fetchOnce"
    /\ UNCHANGED << config, cache, ctx, attempt, delay, lastErr, fo, req, resp,
                    result, built, history, cancelAt >>

\* a retry enters the select on ctx.Done() and time.After(delay)
LoopWait ==
    /\ pc = "loop"
    /\ LoopStep(attempt, maxRetries, ctx) = "wait"
    /\ pc' = "wait"
    /\ UNCHANGED << config, cache, ctx, attempt, delay, lastErr, fo, req, resp,
                    result, built, history, cancelAt >>

\* the select takes the timer (it may, also when the context is done too)
WaitTimer ==
    /\ pc = "wait"
    /\ waits' = Append(waits, delay)
    /\ delay' = NextDelay(delay)
    /\ pc' = "fetchOnce"
    /\ UNCHANGED << config, cache, ctx, attempt, lastErr, fo, req, resp, result,
                    built, nAttempts, nRequests, nBuilds, nGets, nPuts, nDoErrors,
                    cancelAt >>

\* the select takes ctx.Done()
WaitContextDone ==
    /\ pc = "wait"
    /\ ctx # "live"
    /\ Return(<<>>, Errorf("context cancelled during retry", CtxError(ctx)))
    /\ UNCHANGED << config, cache, ctx, attempt, delay, lastErr, fo, req, resp,
                    built, history, cancelAt >>

\* fetchOnce fails before the request; fetch classifies the error
AttemptRejected ==
    /\ pc = "fetchOnce"
    /\ \E a \in {FetchOnceBegin(ctx, q, baseURL, endpoint, cacheOn, cache)} :
       /\ a.err # NoErr
       /\ fo' = a
       /\ nAttempts' = nAttempts + 1
       /\ nBuilds' = nBuilds + (IF a.built THEN 1 ELSE 0)
       /\ nGets' = nGets + (IF a.looked THEN 1 ELSE 0)
       /\ AttemptFailed(a.err)
    /\ UNCHANGED << config, cache, ctx, delay, req, resp, built, nRequests,
                    nPuts, nDoErrors, waits, cancelAt >>

\* fetchOnce builds the URL, reads the cache and calls httpClient.Do
AttemptRequest ==
    /\ pc = "fetchOnce"
    /\ \E a \in {FetchOnceBegin(ctx, q, baseURL, endpoint, cacheOn, cache)} :
       /\ a.err = NoErr
       /\ fo' = a
       /\ req' = RequestHeaders(userAgent, a)
       /\ nAttempts' = nAttempts + 1
       /\ nBuilds' = nBuilds + 1
       /\ nGets' = nGets + (IF a.looked THEN 1 ELSE 0)
       /\ nRequests' = nRequests + 1
       /\ pc' = "do"
    /\ UNCHANGED << config, cache, ctx, attempt, delay, lastErr, resp, result,
                    built, nPuts, nDoErrors, waits, cancelAt >>

\* httpClient.Do returns; fetchOnce handles the outcome and fetch the result
AttemptResponse ==
    /\ pc = "do"
    /\ \E o \in Outcomes :
         \E r \in {FetchOnceEnd(o, ctx, fo, cacheOn)} :
         /\ resp' = o
         /\ cache' = IF r.put THEN CachePut(cache, fo.fullURL, r.data, r.etag)
                      ELSE cache
         /\ nPuts' = nPuts + (IF r.put THEN 1 ELSE 0)
         /\ nDoErrors' = nDoErrors + (IF o.kind = "error" THEN 1 ELSE 0)
         /\ IF r.err = NoErr
            THEN Return(r.data, NoErr) /\ UNCHANGED << attempt, lastErr >>
            ELSE AttemptFailed(r.err)
    /\ UNCHANGED << config, ctx, delay, fo, req, built, nAttempts, nRequests,
                    nBuilds, nGets, waits, cancelAt >>

\* the caller cancels the context, or its deadline passes, during the call
ContextDone ==
    /\ Running
    /\ ctx = "live"
    /\ ctx' \in {"Canceled", "DeadlineExceeded"}
    /\ cancelAt' = [pc |-> pc, nRequests |-> nRequests]
    /\ UNCHANGED << config, cache, pc, attempt, delay, lastErr, fo, req, resp,
                    result, built, history >>

(***************************************************************************)
(* The fetch call: FetchGP, FetchGPFirst, FetchGPLast, FetchTable          *)
(***************************************************************************)
NotCancelled == [pc |-> "none", nRequests |-> 0]

NotBuilt == [url |-> EmptyStr, err |-> NoErr]

\* the fields of the Client that the With methods set
Configuration ==
    [maxRetries |-> maxRetries, retryDelay |-> retryDelay,
     cacheOn |-> cacheOn, userAgent |-> userAgent]

Init ==
    /\ \E c \in FetchCalls : q = c[1] /\ endpoint = c[2]
    /\ baseURL = defaultBaseURL
    /\ maxRetries \in -1..MaxRetriesBound
    /\ retryDelay \in 0..MaxDelayBound
    /\ cacheOn \in BOOLEAN
    /\ userAgent = "celestrak-go/0.0.1"
    /\ \E b \in {BuildURL(q, baseURL, endpoint)} :
         cache \in IF cacheOn /\ b.err = NoErr THEN InitialCaches(b.url)
                   ELSE {NoCache}
    /\ ctx \in {"nil", "live", "Canceled", "DeadlineExceeded"}
    /\ pc = "loop"
    /\ attempt = 0
    /\ delay = retryDelay
    /\ lastErr = NoErr
    /\ fo = NoAttempt
    /\ req = NoRequest
    /\ resp = NoResponse
    /\ result = NoResult
    /\ built = NotBuilt
    /\ nAttempts = 0
    /\ nRequests = 0
    /\ nBuilds = 0
    /\ nGets = 0
    /\ nPuts = 0
    /\ nDoErrors = 0
    /\ waits = <<>>
    /\ cancelAt = NotCancelled
    /\ start = Configuration

Next ==
    \/ LoopExhausted
    \/ LoopNilContext
    \/ LoopContextDone
    \/ LoopFirstAttempt
    \/ LoopWait
    \/ WaitTimer
    \/ WaitContextDone
    \/ AttemptRejected
    \/ AttemptRequest
    \/ AttemptResponse
    \/ ContextDone

Spec == Init /\ [][Next]_vars

(***************************************************************************)
(* Progress of a call: the goroutine of the call keeps running, every      *)
(* request handed to httpClient.Do returns and every timer fires.  The     *)
(* context may complete or not.                                            *)
(***************************************************************************)
FetchStep ==
    \/ LoopExhausted
    \/ LoopNilContext
    \/ LoopContextDone
    \/ LoopFirstAttempt
    \/ LoopWait
    \/ WaitTimer
    \/ WaitContextDone
    \/ AttemptRejected
    \/ AttemptRequest
    \/ AttemptResponse

\* the calls of FetchGP and FetchTable, with the longest initial delay
InitFair ==
    /\ Init
    /\ endpoint \in {"gp.php", "table.php"}
    /\ retryDelay = MaxDelayBound

SpecFair == InitFair /\ [][Next]_vars /\ WF_vars(FetchStep)

(***************************************************************************)
(* Configuration methods called by another goroutine during a fetch.  The  *)
(* methods assign the fields of the shared Client in place, with no        *)
(* synchronisation, and fetch reads c.maxRetries at every loop test,       *)
(* c.cache at the lookup and again at the write, c.userAgent at every      *)
(* request: a later read sees the old or the new value, and a read of the  *)
(* two-word cache or userAgent value that overlaps the write may see a     *)
(* mix of both, which the use that follows may crash on.                   *)
(***************************************************************************)
\* the other goroutine makes each of its calls once, with these arguments
OtherRetries == [maxRetries |-> start.maxRetries + 1, retryDelay |-> 0]

OtherUserAgent == "my-app/1.0"

\* the state of the call after a racing write of a two-word field
RacingWrite ==
    \/ pc' = pc
    \/ pc \in {"fetchOnce", "do"} /\ pc' = "panic"

\* c.WithRetries(m, d)
WithRetries ==
    /\ Running
    /\ maxRetries = start.maxRetries
    /\ maxRetries' = OtherRetries.maxRetries
    /\ retryDelay' = OtherRetries.retryDelay
    /\ UNCHANGED << call, cacheOn, userAgent, cache, ctx, pc, attempt, delay,
                    lastErr, fo, req, resp, result, built, history, cancelAt >>

\* c.WithCache(other): nil on a client that has a cache, and a cache that
\* holds no entry on a client that has none
WithCache ==
    /\ Running
    /\ cacheOn = start.cacheOn
    /\ cacheOn' = ~start.cacheOn
    /\ cache' = NoCache
    /\ RacingWrite
    /\ UNCHANGED << call, maxRetries, retryDelay, userAgent, ctx, attempt, delay,
                    lastErr, fo, req, resp, result, built, history, cancelAt >>

\* c.WithUserAgent(ua)
WithUserAgent ==
    /\ Running
    /\ userAgent = start.userAgent
    /\ userAgent' = OtherUserAgent
    /\ RacingWrite
    /\ UNCHANGED << call, maxRetries, retryDelay, cacheOn, cache, ctx, attempt,
                    delay, lastErr, fo, req, resp, result, built, history, cancelAt >>

\* one call on a valid query, on a client another goroutine reconfigures
InitConcurrent ==
    /\ Init
    /\ q \in ValidQueries
    /\ endpoint = "gp.php"
    /\ maxRetries \in {0, 1}
    /\ retryDelay = 1

NextConcurrent ==
    \/ Next
    \/ WithRetries
    \/ WithCache
    \/ WithUserAgent

SpecConcurrent == InitConcurrent /\ [][NextConcurrent]_vars

(***************************************************************************)
(* Calls one after the other on one client, whose cache starts empty and   *)
(* is written by fetchOnce only: a later call finds what an earlier one    *)
(* stored.                                                                 *)
(***************************************************************************)
\* the next call of the same Fetch method with the same Query, with a
\* fresh context, once the call before has returned
NewCall ==
    /\ pc = "done"
    /\ pc' = "loop"
    /\ ctx' = "live"
    /\ attempt' = 0
    /\ delay' = retryDelay
    /\ lastErr' = NoErr
    /\ fo' = NoAttempt
    /\ req' = NoRequest
    /\ resp' = NoResponse
    /\ result' = NoResult
    /\ nAttempts' = 0
    /\ nRequests' = 0
    /\ nBuilds' = 0
    /\ nGets' = 0
    /\ nPuts' = 0
    /\ nDoErrors' = 0
    /\ waits' = <<>>
    /\ cancelAt' = NotCancelled
    /\ start' = Configuration
    /\ UNCHANGED << q, endpoint, baseURL, maxRetries, retryDelay, cacheOn,
                    userAgent, cache, built >>

InitCalls ==
    /\ Init
    /\ q \in ValidQueries
    /\ maxRetries \in {0, 1}
    /\ retryDelay = 1
    /\ cache = NoCache

NextCalls ==
    \/ Next
    \/ NewCall

SpecCalls == InitCalls /\ [][NextCalls]_vars

(***************************************************************************)
(* A direct call of Query.BuildURL                                         *)
(***************************************************************************)
InitBuildURL ==
    /\ q \in BuildQueries
    /\ endpoint \in {"", "gp.php", "gp-first.php", "gp-last.php", "table.php"}
    /\ baseURL \in {Nil, defaultBaseURL}
    /\ maxRetries = 3
    /\ retryDelay = 1
    /\ cacheOn = FALSE
    /\ userAgent = "celestrak-go/0.0.1"
    /\ cache = NoCache
    /\ ctx = "live"
    /\ pc = "build"
    /\ attempt = 0
    /\ delay = retryDelay
    /\ lastErr = NoErr
    /\ fo = NoAttempt
    /\ req = NoRequest
    /\ resp = NoResponse
    /\ result = NoResult
    /\ built = NotBuilt
    /\ nAttempts = 0
    /\ nRequests = 0
    /\ nBuilds = 0
    /\ nGets = 0
    /\ nPuts = 0
    /\ nDoErrors = 0
    /\ waits = <<>>
    /\ cancelAt = NotCancelled
    /\ start = Configuration

BuildURLCall ==
    /\ pc = "build"
    /\ built' = BuildURL(q, baseURL, endpoint)
    /\ pc' = "built"
    /\ UNCHANGED << config, cache, ctx, attempt, delay, lastErr, fo, req, resp,
                    result, history, cancelAt >>

NextBuildURL == BuildURLCall

SpecBuildURL == InitBuildURL /\ [][NextBuildURL]_vars

(***************************************************************************)
(* Reading a built URL back (the claims' side: what a server that parses   *)
(* the query string sees)                                                  *)
(***************************************************************************)
UnescapeToken(t) ==
    CASE t = "+"   -> " "
      [] t = "%26" -> "&"
      [] t = "%3D" -> "="
      [] t = "%2B" -> "+"
      [] OTHER     -> t

\* the part of the URL after the "?"
RawQuery(url) ==
    LET i == CHOOSE j \in 1..Len(url) : url[j] = "?" /\ \A m \in 1..(j - 1) : url[m] # "?"
    IN  SubSeq(url, i + 1, Len(url))

\* url.ParseQuery: the (key, value) pairs of a raw query, in their order
ParseQuery(raw) ==
    LET cut == {0, Len(raw) + 1} \cup {i \in 1..Len(raw) : raw[i] = "&"}
        starts == {i \in cut : i <= Len(raw)}
        end(i) == CHOOSE j \in cut : j > i /\ \A m \in cut : m > i => j <= m
        nth(k) == CHOOSE i \in starts : Cardinality({m \in starts : m < i}) = k - 1
        pair(i) ==
            LET seg == SubSeq(raw, i + 1, end(i) - 1)
                eq == CHOOSE j \in 1..Len(seg) : seg[j] = "=" /\ \A m \in 1..(j - 1) : seg[m] # "="
                val == SubSeq(seg, eq + 1, Len(seg))
            IN  << SubSeq(seg, 1, eq - 1), [m \in 1..Len(val) |-> UnescapeToken(val[m])] >>
    IN  [k \in 1..Cardinality(starts) |-> pair(nth(k))]

\* the selector fields of q, in the order singleSelector reads them
Field(qq, i) ==
    CASE i = 1 -> qq.CATNR
      [] i = 2 -> qq.INTDES
      [] i = 3 -> qq.GROUP
      [] i = 4 -> qq.NAME
      [] i = 5 -> qq.SPECIAL

\* the selector fields that are not empty once trimmed
NonEmptyFields(qq) == {i \in 1..5 : TrimSpace(Field(qq, i)) # EmptyStr}

SelectorKeySet == {SelectorKeys[i] : i \in 1..5}

(***************************************************************************)
(* C9.  A Query with exactly one selector field non-empty after trimming,  *)
(* built with a non-nil base and a non-empty endpoint: BuildURL succeeds,  *)
(* and the query string of the URL, read back, holds exactly one selector  *)
(* parameter (the key of that field with the trimmed value) and exactly    *)
(* one FORMAT parameter, whose value is TLE when FORMAT is unset.          *)
(***************************************************************************)
C9_OneSelectorBuilds ==
    (pc = "built" /\ baseURL # Nil /\ endpoint # "" /\ Cardinality(NonEmptyFields(q)) = 1)
    => /\ built.err = NoErr
       /\ LET ps == ParseQuery(RawQuery(built.url))
               i == CHOOSE j \in NonEmptyFields(q) : TRUE
               sels == {k \in 1..Len(ps) : ps[k][1] \in {<< key >> : key \in SelectorKeySet}}
               fmts == {k \in 1..Len(ps) : ps[k][1] = << "FORMAT" >>}
           IN  /\ Cardinality(sels) = 1
               /\ \A k \in sels : ps[k] = << << SelectorKeys[i] >>, TrimSpace(Field(q, i)) >>
               /\ Cardinality(fmts) = 1
               /\ \A k \in fmts :
                     ps[k][2] = IF q.FORMAT = EmptyStr THEN << "TLE" >> ELSE q.FORMAT

\* a built URL whose selector value needed trimming and escaping, FORMAT unset
C9_Witness ==
    /\ pc = "built"
    /\ built.err = NoErr
    /\ Cardinality(NonEmptyFields(q)) = 1
    /\ q.NAME = << " ", "ISS", " ", "&", "1", " " >>
    /\ q.CATNR = << " " >>
    /\ q.FORMAT = EmptyStr
    /\ endpoint = "table.php"

(***************************************************************************)
(* C10.  A Query with no selector field, or with two or more, non-empty    *)
(* after trimming: BuildURL returns no URL and a QueryError, whatever the  *)
(* format, the flags and the endpoint; when the base and the endpoint are  *)
(* given, the error is the missing-selector one for zero fields and the    *)
(* set-exactly-one one for two or more.                                    *)
(***************************************************************************)
C10_BadSelectorFails ==
    (pc = "built" /\ Cardinality(NonEmptyFields(q)) # 1)
    => /\ built.url = EmptyStr
       /\ IsQueryError(built.err)
       /\ (baseURL # Nil /\ endpoint # "")
            => built.err =
                 IF NonEmptyFields(q) = {}
                 THEN QueryError("missing selector (set one of CATNR/INTDES/GROUP/NAME/SPECIAL)")
                 ELSE QueryError("set exactly one of CATNR/INTDES/GROUP/NAME/SPECIAL")

\* an ambiguous query on the table endpoint, with flags and a format
C10_Witness ==
    /\ pc = "built"
    /\ Cardinality(NonEmptyFields(q)) = 3
    /\ q.TableFlags = SomeFlags
    /\ q.FORMAT # EmptyStr
    /\ endpoint = "table.php"
    /\ baseURL # Nil
    /\ IsQueryError(built.err)

(***************************************************************************)
(* Helpers of the claims about fetch                                       *)
(***************************************************************************)
\* the query fails selector validation
FailsValidation(qq) == singleSelector(qq).err # NoErr

\* the context has completed (cancelled, or its deadline passed)
ContextIsDone == ctx \notin {"nil", "live"}

\* this step is the return of httpClient.Do with a response, handled by
\* fetchOnce and fetch
GotResponse == pc = "do" /\ pc' # "do" /\ resp'.kind = "response"

RECURSIVE Sum(_)
Sum(s) == IF s = <<>> THEN 0 ELSE Head(s) + Sum(Tail(s))

(***************************************************************************)
(* C1.  A QueryError is never retried: a fetch of a Query that fails       *)
(* selector validation, with maxRetries >= 0 and a context that stays      *)
(* live, makes exactly one fetchOnce attempt, waits for no retry and       *)
(* returns an error that carries the QueryError.                           *)
(***************************************************************************)
C1_QueryErrorNotRetried ==
    (pc = "done" /\ FailsValidation(q) /\ maxRetries >= 0 /\ ctx = "live")
    => /\ nAttempts = 1
       /\ waits = <<>>
       /\ Wraps(result.err, singleSelector(q).err)

(***************************************************************************)
(* C2.  When httpClient.Do fails on every attempt and the context stays    *)
(* live, fetch makes exactly maxRetries+1 attempts (each one a request)    *)
(* and returns no data and the composite error, which carries maxRetries   *)
(* and wraps the error of the last attempt.  (maxRetries >= 0: a negative  *)
(* value leaves no attempt whose error could be wrapped.)                  *)
(***************************************************************************)
C2_ExhaustsAfterMaxRetriesPlusOne ==
    (pc = "done" /\ ctx = "live" /\ maxRetries >= 0 /\ nDoErrors = nAttempts)
    => /\ nAttempts = maxRetries + 1
       /\ nRequests = maxRetries + 1
       /\ result.data = <<>>
       /\ result.err = MaxRetriesExceeded(maxRetries, lastErr)
       /\ lastErr = Errorf("request failed", TransportError)

\* the default maxRetries = 3: four attempts, all transport failures
C2_Witness ==
    /\ pc = "done"
    /\ ctx = "live"
    /\ maxRetries = 3
    /\ nDoErrors = 4
    /\ nAttempts = 4
    /\ nRequests = 4
    /\ result.err[1].n = 3

(***************************************************************************)
(* C3.  Exponential backoff: no wait precedes attempt 0, one wait precedes *)
(* every later attempt, the k-th wait lasts retryDelay * 2^(k-1), and      *)
(* after maxRetries+1 attempts the waits add up to                         *)
(* retryDelay * (2^maxRetries - 1).                                        *)
(***************************************************************************)
C3_ExponentialBackoff ==
    /\ Len(waits) <= attempt
    /\ pc \in {"fetchOnce", "do"} => Len(waits) = attempt
    /\ \A k \in 1..Len(waits) : waits[k] = retryDelay * 2^(k - 1)
    /\ (maxRetries >= 0 /\ nAttempts = maxRetries + 1)
         => Sum(waits) = retryDelay * (2^maxRetries - 1)

\* two waits of a call whose delay is not zero
C3_Witness ==
    /\ pc = "done"
    /\ retryDelay = 1
    /\ maxRetries = 2
    /\ nAttempts = 3
    /\ waits = << 1, 2 >>

(***************************************************************************)
(* C4.  Once the context completes while fetch is in the wait before a     *)
(* retry, no further request is handed to httpClient.Do, whichever branch  *)
(* the select takes and however many retries are left, and fetch returns   *)
(* no data and an error that wraps the error of the context.               *)
(***************************************************************************)
C4_CancelDuringWait ==
    cancelAt.pc = "wait"
    => /\ nRequests = cancelAt.nRequests
       /\ pc # "do"
       /\ pc = "done" => /\ result.data = <<>>
                          /\ Wraps(result.err, CtxError(ctx))

\* the select took the timer although the context was done, with retries
\* left: the attempt that followed made no request
C4_Witness ==
    /\ cancelAt.pc = "wait"
    /\ pc = "done"
    /\ attempt <= maxRetries
    /\ lastErr = Errorf("context error", CtxError(ctx))
    /\ Len(waits) = attempt - 1

(***************************************************************************)
(* C5.  The context is checked before every attempt, the first included:   *)
(* with the context done at the head of the loop, fetch returns at once    *)
(* the context-cancelled error, without a BuildURL call, a cache lookup    *)
(* or a request; so a fetch entered with a done context makes no request,  *)
(* for an invalid Query too.                                               *)
(***************************************************************************)
C5_ContextCheckedFirst ==
    /\ [][ (pc = "loop" /\ attempt <= maxRetries /\ ContextIsDone)
           => /\ pc' = "done"
              /\ result' = [data |-> <<>>,
                             err |-> Errorf("context cancelled", CtxError(ctx))]
              /\ UNCHANGED << nAttempts, nBuilds, nGets, nRequests, nPuts, cache >> ]_vars
    /\ []( (ContextIsDone /\ cancelAt = NotCancelled)
           => nAttempts = 0 /\ nBuilds = 0 /\ nGets = 0 /\ nRequests = 0 )

\* a fetch of an invalid Query entered with a cancelled context
C5_Witness ==
    /\ pc = "done"
    /\ ContextIsDone
    /\ cancelAt = NotCancelled
    /\ FailsValidation(q)
    /\ maxRetries >= 0
    /\ result.err = Errorf("context cancelled", CtxError(ctx))

(***************************************************************************)
(* C6.  A response that is neither 2xx nor 304 makes the attempt fail with *)
(* an ErrorResponse carrying the status.  Below 500 fetch returns that     *)
(* ErrorResponse at once; from 500 on, with a retry left, fetch goes on    *)
(* to the next attempt, which a live context lets it wait for and start.   *)
(***************************************************************************)
C6_RetryIffServerError ==
    /\ [][ (GotResponse /\ resp'.status # 304
              /\ (resp'.status < 200 \/ resp'.status > 299))
           => /\ IsErrorResponse(lastErr')
              /\ lastErr'[1].status = resp'.status
              /\ Len(lastErr') = 1
              /\ resp'.status < 500
                   => /\ pc' = "done"
                      /\ result' = [data |-> <<>>, err |-> lastErr']
                      /\ attempt' = attempt
              /\ (resp'.status >= 500 /\ attempt < maxRetries)
                   => /\ pc' = "loop"
                      /\ attempt' = attempt + 1
                      /\ result' = NoResult ]_vars
    /\ [][ (pc = "loop" /\ attempt > 0 /\ attempt <= maxRetries /\ ctx = "live")
           => (pc' = "wait" \/ ctx' # "live") ]_vars
    /\ [][ (pc = "wait" /\ ctx = "live") => (pc' = "fetchOnce" \/ ctx' # "live") ]_vars

\* a 500 was retried and the retry got a 499, which was returned
C6_Witness ==
    /\ pc = "done"
    /\ nRequests = 2
    /\ attempt = 1
    /\ resp.status = 499
    /\ IsErrorResponse(result.err)
    /\ result.err[1].status = 499

(***************************************************************************)
(* C7.  A 304 response: when the cache lookup of the attempt found an      *)
(* entry, fetch returns the bytes of that entry and no error, and nothing  *)
(* is written to the cache; when it found none (or there is no cache),     *)
(* the attempt fails with an ErrorResponse that fetch returns without a    *)
(* retry.                                                                  *)
(***************************************************************************)
C7_NotModified ==
    [][ (GotResponse /\ resp'.status = 304)
        => /\ pc' = "done"
           /\ attempt' = attempt
           /\ cache' = cache
           /\ nPuts' = nPuts
           /\ IF cacheOn /\ fo.fullURL \in DOMAIN cache
              THEN result' = [data |-> cache[fo.fullURL].data, err |-> NoErr]
              ELSE /\ result'.data = <<>>
                   /\ IsErrorResponse(result'.err)
                   /\ result'.err[1].status = 304 ]_vars

\* a 304 answered from the cache
C7_Witness ==
    /\ pc = "done"
    /\ resp.status = 304
    /\ result = [data |-> << "old" >>, err |-> NoErr]
    /\ req.ifNoneMatch = << "v0" >>

(***************************************************************************)
(* C8.  The body of a 2xx response against the cap maxResponseSize: a      *)
(* body longer than the cap fails with an ErrorResponse and no bytes are   *)
(* returned; a body of 1 to cap bytes that ends there is returned whole,   *)
(* the body of exactly cap bytes included.                                 *)
(***************************************************************************)
C8_SizeBound ==
    [][ (GotResponse /\ resp'.status >= 200 /\ resp'.status <= 299)
        => /\ Len(resp'.body) > maxResponseSize
                => /\ pc' = "done"
                   /\ result'.data = <<>>
                   /\ IsErrorResponse(result'.err)
                   /\ nPuts' = nPuts
           /\ (Len(resp'.body) \in 1..maxResponseSize /\ ~resp'.bodyErr)
                => /\ pc' = "done"
                   /\ result' = [data |-> resp'.body, err |-> NoErr] ]_vars

\* a body of exactly the cap was returned whole
C8_Witness ==
    /\ pc = "done"
    /\ resp.status = 200
    /\ Len(resp.body) = maxResponseSize
    /\ ~resp.bodyErr
    /\ result = [data |-> resp.body, err |-> NoErr]

(***************************************************************************)
(* Helpers of the claims about the parameters of a built URL               *)
(***************************************************************************)
\* the parameters of the URL BuildURL returned, and their keys, in order
BuiltParams == ParseQuery(RawQuery(built.url))

BuiltKeys == [k \in 1..Len(BuiltParams) |-> BuiltParams[k][1][1]]

BuiltOk == pc = "built" /\ built.err = NoErr

\* the place of a key in the order BuildURL inserts the parameters
InsertionRank(k) ==
    CASE k \in SelectorKeySet -> 1
      [] k = "FORMAT"   -> 2
      [] k = "BSTAR"    -> 3
      [] k = "SHOW-OPS" -> 4
      [] k = "OLDEST"   -> 5
      [] k = "DOCKED"   -> 6
      [] k = "MOVERS"   -> 7

\* the place of a key in the byte order of the eleven parameter names
ByteRank(k) ==
    CASE k = "BSTAR"    -> 1
      [] k = "CATNR"    -> 2
      [] k = "DOCKED"   -> 3
      [] k = "FORMAT"   -> 4
      [] k = "GROUP"    -> 5
      [] k = "INTDES"   -> 6
      [] k = "MOVERS"   -> 7
      [] k = "NAME"     -> 8
      [] k = "OLDEST"   -> 9
      [] k = "SHOW-OPS" -> 10
      [] k = "SPECIAL"  -> 11

\* the table flags: parameter name and TableFlags field
FlagParams ==
    { << "BSTAR", "BSTAR" >>, << "SHOW-OPS", "ShowOps" >>, << "OLDEST", "Oldest" >>,
      << "DOCKED", "Docked" >>, << "MOVERS", "Movers" >> }

(***************************************************************************)
(* C11 as stated.  In every built URL the parameters appear in insertion   *)
(* order: the selector key, then FORMAT, then the table flags in the       *)
(* order BSTAR, SHOW-OPS, OLDEST, DOCKED, MOVERS.                          *)
(***************************************************************************)
C11_InsertionOrder ==
    BuiltOk => \A i, j \in 1..Len(BuiltKeys) :
                  i < j => InsertionRank(BuiltKeys[i]) < InsertionRank(BuiltKeys[j])

(***************************************************************************)
(* C11 amended.  In every built URL the parameters appear in ascending     *)
(* byte order of their keys, each key once: of BSTAR, CATNR, DOCKED,       *)
(* FORMAT, GROUP, INTDES, MOVERS, NAME, OLDEST, SHOW-OPS, SPECIAL those    *)
(* present come in this order, for every selector kind and every flag      *)
(* combination.                                                            *)
(***************************************************************************)
C11_SortedByKey ==
    BuiltOk => \A i, j \in 1..Len(BuiltKeys) :
                  i < j => ByteRank(BuiltKeys[i]) < ByteRank(BuiltKeys[j])

\* a SPECIAL query with every flag on the table endpoint: the selector last
C11_Witness ==
    /\ BuiltOk
    /\ endpoint = "table.php"
    /\ BuiltKeys = << "BSTAR", "DOCKED", "FORMAT", "MOVERS", "OLDEST",
                      "SHOW-OPS", "SPECIAL" >>

(***************************************************************************)
(* C12.  A table-flag parameter appears in the built URL if and only if    *)
(* the endpoint is table.php and the TableFlags field of that flag is      *)
(* true, and then once and with the value 1; for the other endpoints no    *)
(* flag parameter appears whatever the flags.                              *)
(***************************************************************************)
C12_FlagsOnlyOnTable ==
    BuiltOk =>
      \A f \in FlagParams :
        LET at == {k \in 1..Len(BuiltParams) : BuiltParams[k][1] = << f[1] >>} IN
        /\ (at # {}) <=> (endpoint = "table.php" /\ q.TableFlags[f[2]])
        /\ Cardinality(at) <= 1
        /\ \A k \in at : BuiltParams[k][2] = << "1" >>

\* flags set on a query for gp.php: none in the URL
C12_Witness ==
    /\ BuiltOk
    /\ endpoint = "gp.php"
    /\ q.TableFlags.BSTAR /\ q.TableFlags.Movers /\ ~q.TableFlags.Docked
    /\ BuiltKeys = << "CATNR", "FORMAT" >>

\* some flags set on a query for table.php: exactly those in the URL
C12_WitnessTable ==
    /\ BuiltOk
    /\ endpoint = "table.php"
    /\ q.TableFlags = SomeFlags
    /\ BuiltKeys = << "BSTAR", "CATNR", "FORMAT", "MOVERS", "OLDEST" >>

(***************************************************************************)
(* C13.  A fetch called with a nil context fails with the QueryError       *)
(* 'context must be non-nil', returned as an error value: it does not      *)
(* crash and it makes no HTTP request.                                     *)
(***************************************************************************)
C13_NilContextRejected ==
    ctx = "nil"
    => /\ pc # "panic"
       /\ nRequests = 0
       /\ pc = "done" => result = [data |-> <<>>,
                                    err |-> QueryError("context must be non-nil")]

\* the innermost error of a chain: where the failure comes from
Origin(err) == err[Len(err)]

(***************************************************************************)
(* C14.  Every error fetch returns is told apart by the exported           *)
(* predicates: a failure that comes from local validation (a QueryError)   *)
(* satisfies IsQueryError; a failure that comes from a server status (an   *)
(* ErrorResponse) satisfies IsErrorResponse, and also IsServerError when   *)
(* the status is 500 or more.                                              *)
(***************************************************************************)
C14_ErrorsTypedByKind ==
    (pc = "done" /\ result.err # NoErr)
    => /\ Origin(result.err).type = "QueryError" => IsQueryError(result.err)
       /\ Origin(result.err).type = "ErrorResponse"
            => /\ IsErrorResponse(result.err)
               /\ Origin(result.err).status >= 500 => IsServerError(result.err)

(***************************************************************************)
(* C15.  Validation precedes I/O: during a fetch of a Query that fails     *)
(* selector validation, on any of the four endpoints, no attempt reads     *)
(* the cache, writes the cache or makes an HTTP request.                   *)
(***************************************************************************)
C15_ValidationBeforeIO ==
    FailsValidation(q)
    => /\ nGets = 0
       /\ nPuts = 0
       /\ nRequests = 0
       /\ cache = NoCache
       /\ pc # "do"

\* a finished fetch of the empty Query on the table endpoint of a client
\* with a cache, after more than one attempt
C15_Witness ==
    /\ pc = "done"
    /\ NonEmptyFields(q) = {}
    /\ endpoint = "table.php"
    /\ cacheOn
    /\ nAttempts >= 2
    /\ nBuilds = nAttempts

\* this step returns the body of a 2xx response as the result of fetch
FreshSuccess ==
    /\ GotResponse
    /\ resp'.status >= 200 /\ resp'.status <= 299
    /\ pc' = "done"
    /\ result'.err = NoErr

(***************************************************************************)
(* C16 as stated.  With a cache configured the engine writes an entry      *)
(* after a successful non-cached 2xx response exactly when the response    *)
(* carries a validator (an ETag not empty once trimmed); without one       *)
(* nothing is written, so no written entry has an empty validator.         *)
(***************************************************************************)
C16_WriteOnlyWithValidator ==
    [][ GotResponse
        => /\ (nPuts' = nPuts + 1)
                <=> (cacheOn /\ FreshSuccess /\ TrimSpace(resp'.etag) # EmptyStr)
           /\ nPuts' \in {nPuts, nPuts + 1}
           /\ nPuts' # nPuts => cache'[fo.fullURL].etag # EmptyStr ]_vars

(***************************************************************************)
(* C16 amended.  With a cache configured the engine writes an entry (key   *)
(* the resolved URL, the body, the trimmed ETag) after every successful    *)
(* non-cached 2xx response, whether or not it carries a validator: a       *)
(* response with no ETag, or a blank one, writes an entry whose validator  *)
(* is empty.  Nothing is written after a 304, after a failed attempt or    *)
(* without a cache.                                                        *)
(***************************************************************************)
C16_WriteAfterEverySuccess ==
    [][ GotResponse
        => IF cacheOn /\ FreshSuccess
           THEN /\ nPuts' = nPuts + 1
                /\ cache' = CachePut(cache, fo.fullURL, resp'.body, TrimSpace(resp'.etag))
                /\ result'.data = resp'.body
           ELSE /\ nPuts' = nPuts
                /\ cache' = cache ]_vars

\* a 200 with a blank ETag replaced the entry by one with an empty validator
C16_Witness ==
    /\ pc = "done"
    /\ cacheOn
    /\ resp.status = 200
    /\ resp.etag = << " " >>
    /\ result.err = NoErr
    /\ nPuts = 1
    /\ req.ifNoneMatch = << "v0" >>
    /\ cache[fo.fullURL] = [data |-> resp.body, etag |-> EmptyStr]

(***************************************************************************)
(* C17.  The configuration of the client is fixed for the length of a      *)
(* fetch call: whatever WithRetries, WithCache and WithUserAgent calls     *)
(* are made on the client meanwhile, the bound on the attempts, the        *)
(* backoff delays, the cache and the user agent of the call are those of   *)
(* the client when the call started (and the call is not made to crash).   *)
(***************************************************************************)
C17_ConfigurationFixedDuringCall ==
    /\ nAttempts <= (IF start.maxRetries < 0 THEN 0 ELSE start.maxRetries + 1)
    /\ (pc = "done" /\ result.err # NoErr
          /\ result.err[1].msg = << "max retries exceeded" >>)
         => result.err[1].n = start.maxRetries
    /\ \A k \in 1..Len(waits) : waits[k] = start.retryDelay * 2^(k - 1)
    /\ req # NoRequest => req.userAgent = start.userAgent
    /\ nGets = (IF start.cacheOn THEN nRequests ELSE 0)
    /\ nPuts > 0 => start.cacheOn
    /\ (pc = "done" /\ start.cacheOn /\ result.err = NoErr /\ resp.status # 304)
         => nPuts = 1
    /\ ctx # "nil" => pc # "panic"

(***************************************************************************)
(* C18.  A 2xx response whose body is empty is a failure: the attempt      *)
(* yields the ErrorResponse 'empty response body' with the status of the   *)
(* response, fetch returns it after this attempt without a retry, and      *)
(* the cache is not written.                                               *)
(***************************************************************************)
C18_EmptyBodyFails ==
    [][ (GotResponse /\ resp'.status >= 200 /\ resp'.status <= 299
           /\ resp'.body = <<>> /\ ~resp'.bodyErr)
        => /\ pc' = "done"
           /\ result' = [data |-> <<>>,
                          err |-> ErrorResponse(resp'.status, << "empty response body" >>)]
           /\ IsErrorResponse(result'.err)
           /\ attempt' = attempt
           /\ nPuts' = nPuts
           /\ cache' = cache ]_vars

\* an empty 200 on the first attempt of a client with a cache and retries left
C18_Witness ==
    /\ pc = "done"
    /\ resp.kind = "response"
    /\ resp.status = 200
    /\ resp.body = <<>>
    /\ ~resp.bodyErr
    /\ cacheOn
    /\ maxRetries >= 1
    /\ nAttempts = 1
    /\ IsErrorResponse(result.err)

(***************************************************************************)
(* C19.  The composite 'max retries exceeded' error only ever wraps a      *)
(* retryable error, a transport failure or an ErrorResponse with status    *)
(* 500 or more: for every maxRetries >= 0 the error of a done context and  *)
(* a QueryError of an attempt are never inside the composite error, also   *)
(* when they come from the last attempt allowed.                           *)
(***************************************************************************)
C19_CompositeWrapsRetryable ==
    (pc = "done" /\ maxRetries >= 0 /\ result.err # NoErr
       /\ result.err[1].msg = << "max retries exceeded" >>)
    => /\ Len(result.err) > 1
       /\ Origin(result.err).type \notin {"QueryError", "ctxError"}
       /\ Origin(result.err).type = "ErrorResponse" => Origin(result.err).status >= 500

\* C19, the part about the context: the composite error never wraps the
\* error of a done context
C19_CompositeNeverWrapsContext ==
    (pc = "done" /\ maxRetries >= 0 /\ result.err # NoErr
       /\ result.err[1].msg = << "max retries exceeded" >>)
    => Origin(result.err).type # "ctxError"

(***************************************************************************)
(* C20.  An attempt that reaches the request reads the cache anew, when    *)
(* one is configured, with the resolved URL as the key, and sends          *)
(* If-None-Match if and only if a cache is configured and this lookup      *)
(* found an entry with a non-empty validator; the header then carries      *)
(* that validator.                                                         *)
(***************************************************************************)
C20_ConditionalRequest ==
    [][ (pc = "fetchOnce" /\ pc' = "do")
        => LET key == BuildURL(q, baseURL, endpoint).url IN
           /\ fo'.fullURL = key
           /\ nRequests' = nRequests + 1
           /\ nGets' = nGets + (IF cacheOn THEN 1 ELSE 0)
           /\ req'.ifNoneMatch =
                 IF cacheOn /\ key \in DOMAIN cache /\ cache[key].etag # EmptyStr
                 THEN cache[key].etag
                 ELSE EmptyStr ]_vars

\* a retry that looked the entry up again and sent its validator
C20_Witness ==
    /\ pc = "do"
    /\ attempt = 1
    /\ nGets = 2
    /\ nRequests = 2
    /\ req.ifNoneMatch = << "v0" >>
    /\ cache[fo.fullURL].etag = << "v0" >>

(***************************************************************************)
(* C21.  The first successful attempt ends the call: when an attempt,      *)
(* after any number of retryable failures, gets a 2xx response with a      *)
(* body of 1 to cap bytes, fetch returns exactly that body and no error,   *)
(* and makes no further attempt or wait; what failed before has no part    *)
(* in the result.                                                          *)
(***************************************************************************)
C21_FirstSuccessReturns ==
    /\ [][ (GotResponse /\ resp'.status >= 200 /\ resp'.status <= 299
              /\ Len(resp'.body) \in 1..maxResponseSize /\ ~resp'.bodyErr)
           => /\ pc' = "done"
              /\ result' = [data |-> resp'.body, err |-> NoErr]
              /\ attempt' = attempt
              /\ UNCHANGED << nAttempts, nRequests, waits >> ]_vars
    /\ [][ pc = "done" => (pc' = "done" /\ UNCHANGED << result, nAttempts, nRequests, waits >>) ]_vars

\* a success on the third attempt, after two failures and two waits
C21_Witness ==
    /\ pc = "done"
    /\ attempt = 2
    /\ nAttempts = 3
    /\ Len(waits) = 2
    /\ lastErr # NoErr
    /\ resp.status = 200
    /\ result = [data |-> resp.body, err |-> NoErr]
    /\ result.data # <<>>

(***************************************************************************)
(* C22.  A failing attempt leaves the cache unchanged: the cache changes,  *)
(* and Put is called, only in the step of an attempt that got a 2xx        *)
(* response with a body of 1 to cap bytes and succeeded, and the entry     *)
(* written then is the body and the trimmed ETag of that one response      *)
(* under the URL of the call.                                              *)
(***************************************************************************)
C22_FailuresLeaveCache ==
    [][ (cache' # cache \/ nPuts' # nPuts)
        => /\ GotResponse
           /\ resp'.status >= 200 /\ resp'.status <= 299
           /\ Len(resp'.body) \in 1..maxResponseSize
           /\ result' = [data |-> resp'.body, err |-> NoErr]
           /\ nPuts' = nPuts + 1
           /\ cache' = CachePut(cache, fo.fullURL, resp'.body, TrimSpace(resp'.etag)) ]_vars

\* a call that failed on a 500 and then on a 499, its entry still in place
C22_Witness ==
    /\ pc = "done"
    /\ cacheOn
    /\ nRequests = 2
    /\ resp.status = 499
    /\ result.err # NoErr
    /\ nPuts = 0
    /\ cache = CachePut(NoCache, fo.fullURL, << "old" >>, << "v0" >>)

(***************************************************************************)
(* C23.  For every maxRetries that WithRetries accepts, 0 and the          *)
(* negative values too, a fetch whose context is live (and stays so)       *)
(* makes at least one attempt, and the composite 'max retries exceeded'    *)
(* error always wraps an error that an attempt returned.                   *)
(***************************************************************************)
C23_AtLeastOneAttempt ==
    (pc = "done" /\ ctx = "live")
    => /\ nAttempts >= 1
       /\ (result.err # NoErr /\ result.err[1].msg = << "max retries exceeded" >>)
            => (Len(result.err) > 1 /\ lastErr # NoErr /\ Tail(result.err) = lastErr)

(***************************************************************************)
(* C24.  With a cache that starts empty and that only fetchOnce writes,    *)
(* every entry of the cache holds a non-empty body, and so every fetch     *)
(* that succeeds, on a 2xx response or on a 304 answered from the cache,   *)
(* returns a non-empty byte sequence.                                      *)
(***************************************************************************)
C24_SuccessIsNonEmpty ==
    /\ \A k \in DOMAIN cache : cache[k].data # <<>>
    /\ (pc = "done" /\ result.err = NoErr) => result.data # <<>>

\* a later call answered by a 304 from the entry an earlier call stored
C24_Witness ==
    /\ pc = "done"
    /\ resp.status = 304
    /\ result.err = NoErr
    /\ nPuts = 0
    /\ req.ifNoneMatch = << "v1" >>
    /\ result.data = cache[fo.fullURL].data
    /\ result.data # <<>>

\* n when it is positive, else 0
AtLeastZero(n) == IF n > 0 THEN n ELSE 0

(***************************************************************************)
(* C25.  Bounded work and termination: whatever the transport returns and  *)
(* whenever the context completes, one fetch call makes at most            *)
(* maxRetries+1 HTTP requests and at most maxRetries waits (none when      *)
(* these are negative), and, every request and every wait completing, a    *)
(* call with a context eventually returns.                                 *)
(***************************************************************************)
C25_BoundedAndTerminates ==
    /\ [](/\ nRequests <= AtLeastZero(maxRetries + 1)
          /\ nAttempts <= AtLeastZero(maxRetries + 1)
          /\ Len(waits) <= AtLeastZero(maxRetries))
    /\ (ctx # "nil") ~> (pc = "done")

\* the most a call with the default maxRetries does: four requests, three
\* waits, the context completing during the last request
C25_Witness ==
    /\ pc = "done"
    /\ maxRetries = 3
    /\ nRequests = 4
    /\ Len(waits) = 3
    /\ cancelAt.pc = "do"
    /\ cancelAt.nRequests = 4

=============================================================================
